---- MODULE Spec2Model ----
(***************************************************************************)
(* Model of the mempool synchronisation actor of cusf-enforcer-mempool     *)
(* (src/mempool/sync/sync.rs): the notification handler, the response      *)
(* handler, the apply loop and fee resolution, over a small fixed universe *)
(* of transactions and blocks.                                             *)
(***************************************************************************)
EXTENDS Integers, Sequences, FiniteSets, TLC

\* ------------------------------------------------------------------ bounds
\* Number of notifications the sequence stream delivers in one behaviour.
MaxNotifs == 3
\* Number of fetches awaiting their response at once, under a transport
\* whose responses may overtake one another (SpecAnyOrder).
MaxInFlight == 2
\* Largest number of tx requests the request stream groups into one fetch.
MaxBatch == 2

\* ------------------------------------------------------- the data universe
\* Option::None of Block::previousblockhash, and BlockHash::all_zeros().
NoHash == "none"
ZeroHash == "zero"

\* c0, c1: source transactions only ever fetched to resolve input values.
\* t1 spends an output of c0 (5000) and one of c1 (3000) and pays 7000;
\* t2 spends the output of t1 (7000) and the other output of c1 (900) and
\* pays 8200, more than it spends.
SourceTxids == {"c0", "c1"}
MempoolTxids == {"t1", "t2"}
Txids == SourceTxids \cup MempoolTxids

OutPoint(txid, vout) == [txid |-> txid, vout |-> vout]

\* Transaction.input (previous outputs, vout counted from 1 as a Seq index
\* stands for the 0-based index of the code) and Transaction.output values.
TxInput(txid) ==
  CASE txid = "t1" -> << OutPoint("c0", 1), OutPoint("c1", 1) >>
    [] txid = "t2" -> << OutPoint("t1", 1), OutPoint("c1", 2) >>
    [] OTHER -> << >>

TxOutput(txid) ==
  CASE txid = "c0" -> << 5000 >>
    [] txid = "c1" -> << 3000, 900 >>
    [] txid = "t1" -> << 7000 >>
    [] txid = "t2" -> << 8200 >>
    [] OTHER -> << >>

\* The blocks the node may announce: hash -> contained txids, previous hash.
BlockHashes == {"b0", "bA", "bB"}

BlockTx(hash) ==
  CASE hash = "bA" -> << "t1" >>
    [] hash = "bB" -> << "t2" >>
    [] OTHER -> << >>

BlockPrev(hash) ==
  CASE hash = "bA" -> "b0"
    [] hash = "bB" -> "bA"
    [] OTHER -> NoHash

\* ------------------------------------------------------------ message types
BlockHashConnected(h) == [type |-> "BlockHashConnected", id |-> h]
BlockHashDisconnected(h) == [type |-> "BlockHashDisconnected", id |-> h]
TxHashAdded(t) == [type |-> "TxHashAdded", id |-> t]
TxHashRemoved(t) == [type |-> "TxHashRemoved", id |-> t]

\* The notifications the sequence stream may deliver, in any order: either
\* tx event of t1 and t2, the connection of bA and bB, and the disconnection
\* of b0 (the initial tip, an empty block) and of bA.
SequenceMessage ==
  {TxHashAdded(t) : t \in MempoolTxids}
    \cup {TxHashRemoved(t) : t \in MempoolTxids}
    \cup {BlockHashConnected(h) : h \in {"bA", "bB"}}
    \cup {BlockHashDisconnected(h) : h \in {"b0", "bA"}}

ReqBlock(h) == [type |-> "Block", id |-> h, flag |-> FALSE]
ReqTx(t, in_mempool) == [type |-> "Tx", id |-> t, flag |-> in_mempool]

\* ------------------------------------------------------------ sequence help
RECURSIVE SeqSum(_)
SeqSum(s) == IF s = << >> THEN 0 ELSE Head(s) + SeqSum(Tail(s))

RECURSIVE Reverse(_)
Reverse(s) == IF s = << >> THEN << >> ELSE Append(Reverse(Tail(s)), Head(s))

Range(s) == {s[i] : i \in DOMAIN s}

SeqRemove(s, x) == SelectSeq(s, LAMBDA y : y # x)

\* First occurrences of s, in order (LinkedHashSet::replace on a fresh set).
RECURSIVE Dedup(_)
Dedup(s) ==
  IF s = << >> THEN << >>
  ELSE << Head(s) >> \o Dedup(SeqRemove(Tail(s), Head(s)))

\* ------------------------------------------------------------ RequestQueue
\* An ordered set of RequestItems: push_back appends unless already queued,
\* push_front moves or inserts the item to the front, remove drops it.
RequestQueuePushBack(q, item) ==
  IF item \in Range(q) THEN q ELSE Append(q, item)

RequestQueuePushFront(q, item) == << item >> \o SeqRemove(q, item)

RequestQueueRemove(q, item) == SeqRemove(q, item)

\* push_front of every item of items, one after the other.
RECURSIVE PushFrontAll(_, _)
PushFrontAll(q, items) ==
  IF items = << >> THEN q
  ELSE PushFrontAll(RequestQueuePushFront(q, Head(items)), Tail(items))

\* ----------------------------------------------------------------- Mempool
\* txs maps a txid to the fee-delta stored with its transaction.
MempoolInsert(txs, txid, fee) ==
  [t \in DOMAIN txs \cup {txid} |-> IF t = txid THEN fee ELSE txs[t]]

\* remove returns Ok(None) and changes nothing when txid is absent.
MempoolRemove(txs, txid) == [t \in DOMAIN txs \ {txid} |-> txs[t]]

RECURSIVE MempoolRemoveAll(_, _)
MempoolRemoveAll(txs, txids) ==
  IF txids = << >> THEN txs
  ELSE MempoolRemoveAll(MempoolRemove(txs, Head(txids)), Tail(txids))

\* ------------------------------------------------------------ the handlers
\* The handlers work on a record st of the actor's state:
\*   txs, tip, blocks                  the Mempool (txs, chain.tip, chain.blocks)
\*   request_queue, seq_message_queue, tx_cache      the SyncState
\*   accepted, refused, insert_log     history: the txids accept_tx returned
\*                                     true for, those it returned false or an
\*                                     error for, the txids inserted, in order
\* and return [res, st]; res is "true"/"false" for Ok(true)/Ok(false), "ok"
\* for Ok(()), the name of a SyncTaskError variant, or "panic".

Verdicts == {"accept", "reject", "error"}

\* The variants of SyncTaskError.
SyncTaskError ==
  {"CombinedStreamEnded", "CusfEnforcer", "FeeOverflow", "MempoolInsert",
   "MempoolRemove", "Request", "SequenceStream"}

\* Faulty variant: the mempool is not consulted for an input's source.
InputTxsNeededCacheOnly(st, txid) ==
  LET ins == TxInput(txid)
      src == [i \in DOMAIN ins |-> ins[i].txid]
  IN SelectSeq(src, LAMBDA t : t \notin st.tx_cache)

\* Txids of the inputs whose source is in neither tx_cache nor the mempool,
\* in input order (input_txs_needed of try_add_tx_from_cache).
InputTxsNeeded(st, txid) ==
  LET ins == TxInput(txid)
      src == [i \in DOMAIN ins |-> ins[i].txid]
  IN SelectSeq(src, LAMBDA t : t \notin st.tx_cache /\ t \notin DOMAIN st.txs)

\* Sum of the values of the outputs the inputs spend.
ValueIn(txid) ==
  LET ins == TxInput(txid)
  IN SeqSum([i \in DOMAIN ins |-> TxOutput(ins[i].txid)[ins[i].vout]])

\* value_out is bound to Amount::ZERO and never updated.
ValueOut(txid) == 0

\* The call enforcer.accept_tx(tx): the answer is recorded in the history.
AcceptTx(st, verdict, txid) ==
  IF verdict[txid] = "accept"
  THEN [st EXCEPT !.accepted = @ \cup {txid}]
  ELSE [st EXCEPT !.refused = @ \cup {txid}]

\* Faulty variant: an unresolved input does not stop the admission.
TryAddTxFromCacheUnresolved(st, verdict, txid) ==
  IF txid \notin st.tx_cache THEN [res |-> "false", st |-> st]
  ELSE
    LET st2 == AcceptTx(st, verdict, txid)
    IN IF verdict[txid] = "error" THEN [res |-> "CusfEnforcer", st |-> st2]
       ELSE IF verdict[txid] = "accept"
         THEN [res |-> "true",
               st |-> [st2 EXCEPT
                        !.txs = MempoolInsert(@, txid, ValueIn(txid)),
                        !.insert_log = Append(@, txid)]]
       ELSE [res |-> "panic", st |-> st2]

\* Faulty variant: a transaction the enforcer rejects is inserted all the same.
TryAddTxFromCacheInsertsRejected(st, verdict, txid) ==
  IF txid \notin st.tx_cache THEN [res |-> "false", st |-> st]
  ELSE
    LET needed == InputTxsNeeded(st, txid)
        st1 == [st EXCEPT !.request_queue =
                  PushFrontAll(@, [i \in DOMAIN needed |->
                                     ReqTx(Reverse(needed)[i], FALSE)])]
        st2 == AcceptTx(st1, verdict, txid)
    IN IF needed # << >> THEN [res |-> "false", st |-> st1]
       ELSE IF verdict[txid] = "error" THEN [res |-> "CusfEnforcer", st |-> st2]
       ELSE [res |-> "true",
             st |-> [st2 EXCEPT !.txs = MempoolInsert(@, txid, ValueIn(txid)),
                                !.insert_log = Append(@, txid)]]

TryAddTxFromCache(st, verdict, txid) ==
  IF txid \notin st.tx_cache THEN [res |-> "false", st |-> st]
  ELSE
    LET needed == InputTxsNeeded(st, txid)
        st1 == [st EXCEPT !.request_queue =
                  PushFrontAll(@, [i \in DOMAIN needed |->
                                     ReqTx(Reverse(needed)[i], FALSE)])]
        fee_delta == ValueIn(txid) - ValueOut(txid)
        st2 == AcceptTx(st1, verdict, txid)
    IN IF needed # << >> THEN [res |-> "false", st |-> st1]
       ELSE IF fee_delta < 0 THEN [res |-> "FeeOverflow", st |-> st1]
       ELSE IF verdict[txid] = "error" THEN [res |-> "CusfEnforcer", st |-> st2]
       ELSE IF verdict[txid] = "accept"
         THEN [res |-> "true",
               st |-> [st2 EXCEPT !.txs = MempoolInsert(@, txid, fee_delta),
                                  !.insert_log = Append(@, txid)]]
       ELSE [res |-> "panic", st |-> st2]

\* Faulty variant: removing a txid that is not in the mempool is an error.
ApplyTxHashRemovedStrict(st, txid) ==
  IF txid \in DOMAIN st.txs
  THEN [res |-> "true", st |-> [st EXCEPT !.txs = MempoolRemove(@, txid)]]
  ELSE [res |-> "MempoolRemove", st |-> st]

\* mempool.remove(txid)?.is_some()
ApplyTxHashRemoved(st, txid) ==
  [res |-> IF txid \in DOMAIN st.txs THEN "true" ELSE "false",
   st |-> [st EXCEPT !.txs = MempoolRemove(@, txid)]]

\* The block 'res of try_apply_next_seq_message: the attempt on the front
\* of seq_message_queue.
ApplyFront(st, verdict) ==
  LET q == st.seq_message_queue
      front == Head(q)
  IN IF q = << >> THEN [res |-> "false", st |-> st]
     ELSE IF front.type = "BlockHashDisconnected"
       THEN IF st.tip # front.id THEN [res |-> "false", st |-> st]
            ELSE IF front.id \notin st.blocks
              THEN [res |-> "false", st |-> st]
            ELSE IF BlockTx(front.id) # << >>
              THEN [res |-> "panic", st |-> st]
            ELSE [res |-> "true",
                  st |-> [st EXCEPT !.tip =
                            IF BlockPrev(front.id) = NoHash
                            THEN ZeroHash ELSE BlockPrev(front.id)]]
     ELSE IF front.type = "TxHashAdded"
       THEN TryAddTxFromCache(st, verdict, front.id)
     ELSE IF front.type = "TxHashRemoved"
       THEN ApplyTxHashRemoved(st, front.id)
     ELSE [res |-> "false", st |-> st]

\* Faulty variant: an applied event is not popped.
TryApplyNextSeqMessageNoPop(st, verdict) == ApplyFront(st, verdict)

\* Faulty variant: an applied event is popped from the back of the queue.
TryApplyNextSeqMessagePopsBack(st, verdict) ==
  LET r == ApplyFront(st, verdict)
  IN IF r.res = "true"
     THEN [res |-> "true",
           st |-> [r.st EXCEPT !.seq_message_queue =
                     SubSeq(@, 1, Len(@) - 1)]]
     ELSE r

\* Faulty variant: the front event is popped whether or not it was applied.
TryApplyNextSeqMessagePopsAlways(st, verdict) ==
  LET r == ApplyFront(st, verdict)
  IN IF r.res \in {"true", "false"} /\ r.st.seq_message_queue # << >>
     THEN [res |-> r.res,
           st |-> [r.st EXCEPT !.seq_message_queue = Tail(@)]]
     ELSE r

TryApplyNextSeqMessage(st, verdict) ==
  LET r == ApplyFront(st, verdict)
  IN IF r.res = "true"
     THEN [res |-> "true",
           st |-> [r.st EXCEPT !.seq_message_queue = Tail(@)]]
     ELSE r

\* while try_apply_next_seq_message(..)? {}
RECURSIVE ApplyLoop(_, _)
ApplyLoop(st, verdict) ==
  LET r == TryApplyNextSeqMessage(st, verdict)
  IN IF r.res = "true" THEN ApplyLoop(r.st, verdict)
     ELSE IF r.res = "false" THEN [res |-> "ok", st |-> r.st]
     ELSE r

HandleRespTx(st, txid) == [st EXCEPT !.tx_cache = @ \cup {txid}]

\* Faulty variant: the connect event is matched anywhere in seq_message_queue, not
\* only at its front.
HandleRespBlockAnywhere(st, hash) ==
  LET q == st.seq_message_queue
      hits == {i \in DOMAIN q : q[i] = BlockHashConnected(hash)}
      at == CHOOSE i \in hits : \A j \in hits : i <= j
  IN IF hits # {}
       THEN [res |-> "ok",
             st |-> [st EXCEPT
                      !.txs = MempoolRemoveAll(@, BlockTx(hash)),
                      !.tip = hash,
                      !.blocks = @ \cup {hash},
                      !.seq_message_queue =
                        SubSeq(q, 1, at - 1) \o SubSeq(q, at + 1, Len(q))]]
     ELSE [res |-> "ok", st |-> [st EXCEPT !.blocks = @ \cup {hash}]]

\* Faulty variant: a connected block's transactions are taken out of the
\* mempool but their fetches stay in request_queue.
HandleRespBlockKeepsRequests(st, hash) ==
  LET q == st.seq_message_queue
      cached(s) == [s EXCEPT !.blocks = @ \cup {hash}]
      txids == BlockTx(hash)
  IN IF q # << >> /\ Head(q) = BlockHashConnected(hash)
       THEN [res |-> "ok",
             st |-> cached([st EXCEPT
                      !.txs = MempoolRemoveAll(@, txids),
                      !.tip = hash,
                      !.seq_message_queue = Tail(@)])]
     ELSE IF q # << >> /\ Head(q) = BlockHashDisconnected(hash) /\ st.tip = hash
       THEN IF txids # << >> THEN [res |-> "panic", st |-> st]
            ELSE [res |-> "ok",
                  st |-> cached([st EXCEPT
                           !.tip = IF BlockPrev(hash) = NoHash
                                   THEN ZeroHash ELSE BlockPrev(hash),
                           !.seq_message_queue = Tail(@)])]
     ELSE [res |-> "ok", st |-> cached(st)]

HandleRespBlock(st, hash) ==
  LET q == st.seq_message_queue
      cached(s) == [s EXCEPT !.blocks = @ \cup {hash}]
      txids == BlockTx(hash)
  IN IF q # << >> /\ Head(q) = BlockHashConnected(hash)
       THEN [res |-> "ok",
             st |-> cached([st EXCEPT
                      !.txs = MempoolRemoveAll(@, txids),
                      !.request_queue =
                        SelectSeq(@, LAMBDA item :
                          ~(item.type = "Tx" /\ item.flag
                              /\ item.id \in Range(txids))),
                      !.tip = hash,
                      !.seq_message_queue = Tail(@)])]
     ELSE IF q # << >> /\ Head(q) = BlockHashDisconnected(hash) /\ st.tip = hash
       THEN IF txids # << >> THEN [res |-> "panic", st |-> st]
            ELSE [res |-> "ok",
                  st |-> cached([st EXCEPT
                           !.tip = IF BlockPrev(hash) = NoHash
                                   THEN ZeroHash ELSE BlockPrev(hash),
                           !.seq_message_queue = Tail(@)])]
     ELSE [res |-> "ok", st |-> cached(st)]

\* ------------------------------------------------------------------- state
VARIABLES
  mempool_txs,        \* Mempool::txs: txid -> fee-delta
  chain_tip,          \* Mempool::chain.tip
  chain_blocks,       \* Mempool::chain.blocks (the hashes cached)
  request_queue,      \* SyncState::request_queue
  seq_message_queue,  \* SyncState::seq_message_queue
  tx_cache,           \* SyncState::tx_cache (the txids cached)
  in_flight,          \* fetches issued by the response stream, not yet answered
  status,             \* "running", a SyncTaskError variant, or "panic"
  received,           \* history: the notifications handled so far, in order
  accepted,           \* history: txids for which accept_tx returned true
  refused,            \* history: txids for which it returned false or an error
  insert_log,         \* history: txids inserted into the mempool, in order
  cache_log,          \* history: txids in the order they first entered tx_cache
  handling,           \* the call of handle_resp in progress, or NoHandling
  readers             \* the with_mempool callers holding the read guard

vars == << mempool_txs, chain_tip, chain_blocks, request_queue,
           seq_message_queue, tx_cache, in_flight, status, received,
           accepted, refused, insert_log, cache_log, handling, readers >>

\* The actor is between two items of the combined stream.
NoHandling == [pc |-> "idle"]

State ==
  [txs |-> mempool_txs, tip |-> chain_tip, blocks |-> chain_blocks,
   request_queue |-> request_queue, seq_message_queue |-> seq_message_queue,
   tx_cache |-> tx_cache, accepted |-> accepted, refused |-> refused,
   insert_log |-> insert_log]

\* The mempool handed to MempoolSync::new: empty, or already holding c0 and c1.
InitialTxs == { << >>, [t \in SourceTxids |-> 0] }

Init ==
  /\ mempool_txs \in InitialTxs
  /\ chain_tip = "b0"
  /\ chain_blocks = {}
  /\ request_queue = << >>
  /\ seq_message_queue = << >>
  /\ tx_cache = {}
  /\ in_flight = {}
  /\ status = "running"
  /\ received = << >>
  /\ accepted = {}
  /\ refused = {}
  /\ insert_log = << >>
  /\ cache_log = << >>
  /\ handling = NoHandling
  /\ readers = {}

\* The state a handler leaves behind; res is its result.
Install(r) ==
  /\ mempool_txs' = r.st.txs
  /\ chain_tip' = r.st.tip
  /\ chain_blocks' = r.st.blocks
  /\ request_queue' = r.st.request_queue
  /\ seq_message_queue' = r.st.seq_message_queue
  /\ tx_cache' = r.st.tx_cache
  /\ accepted' = r.st.accepted
  /\ refused' = r.st.refused
  /\ insert_log' = r.st.insert_log
  /\ cache_log' = cache_log \o
       SelectSeq(<< "c0", "c1", "t1", "t2" >>,
                 LAMBDA t : t \in r.st.tx_cache \ tx_cache)
  /\ status' = IF r.res \in {"ok", "true", "false"} THEN "running" ELSE r.res

\* ------------------------------------------------------ the sequence stream
\* The txids the node's own mempool holds after it sent the notifications
\* msgs: those whose last tx event is tx-added.
RECURSIVE NodeMempool(_)
NodeMempool(msgs) ==
  IF msgs = << >> THEN {}
  ELSE LET m == msgs[Len(msgs)]
           before == NodeMempool(SubSeq(msgs, 1, Len(msgs) - 1))
       IN CASE m.type = "TxHashAdded" -> before \cup {m.id}
            [] m.type = "TxHashRemoved" -> before \ {m.id}
            [] OTHER -> before

\* The node reports a tx added only when its mempool does not hold it, and
\* removed only when it does; block events come in any order.
NodeSends(msgs, m) ==
  CASE m.type = "TxHashAdded" -> m.id \notin NodeMempool(msgs)
    [] m.type = "TxHashRemoved" -> m.id \in NodeMempool(msgs)
    [] OTHER -> TRUE

\* --------------------------------------------------------- handle_seq_message
\* Faulty variant: a tx-removed notification leaves request_queue alone.
HandleSeqMessageStateNoCancel(st, seq_msg) ==
  LET q == st.request_queue
      q1 == CASE seq_msg.type = "BlockHashConnected" ->
                   RequestQueuePushBack(q, ReqBlock(seq_msg.id))
              [] seq_msg.type = "BlockHashDisconnected" ->
                   IF seq_msg.id \notin st.blocks
                   THEN RequestQueuePushBack(q, ReqBlock(seq_msg.id))
                   ELSE q
              [] seq_msg.type = "TxHashAdded" ->
                   RequestQueuePushBack(q, ReqTx(seq_msg.id, TRUE))
              [] seq_msg.type = "TxHashRemoved" -> q
  IN [st EXCEPT !.request_queue = q1,
                !.seq_message_queue = Append(@, seq_msg)]

HandleSeqMessageState(st, seq_msg) ==
  LET q == st.request_queue
      q1 == CASE seq_msg.type = "BlockHashConnected" ->
                   RequestQueuePushBack(q, ReqBlock(seq_msg.id))
              [] seq_msg.type = "BlockHashDisconnected" ->
                   IF seq_msg.id \notin st.blocks
                   THEN RequestQueuePushBack(q, ReqBlock(seq_msg.id))
                   ELSE q
              [] seq_msg.type = "TxHashAdded" ->
                   RequestQueuePushBack(q, ReqTx(seq_msg.id, TRUE))
              [] seq_msg.type = "TxHashRemoved" ->
                   RequestQueueRemove(q, ReqTx(seq_msg.id, TRUE))
  IN [st EXCEPT !.request_queue = q1,
                !.seq_message_queue = Append(@, seq_msg)]

HandleSeqMessage(seq_msg) ==
  /\ status = "running"
  /\ handling = NoHandling
  /\ Len(received) < MaxNotifs
  /\ NodeSends(received, seq_msg)
  /\ Install([res |-> "ok", st |-> HandleSeqMessageState(State, seq_msg)])
  /\ received' = Append(received, seq_msg)
  /\ UNCHANGED << in_flight, handling, readers >>

\* ------------------------------------------------------- the response stream
\* The request stream takes the front of request_queue and issues one fetch
\* for it; consecutive tx requests at the front may go out as one batch.
IsTxPrefix(q, n) == n <= Len(q) /\ \A i \in 1..n : q[i].type = "Tx"

Issue(n) ==
  /\ status = "running"
  /\ handling = NoHandling
  /\ request_queue # << >>
  /\ n = 1 \/ IsTxPrefix(request_queue, n)
  /\ in_flight' = in_flight \cup {SubSeq(request_queue, 1, n)}
  /\ request_queue' = SubSeq(request_queue, n + 1, Len(request_queue))
  /\ UNCHANGED << mempool_txs, chain_tip, chain_blocks, seq_message_queue,
                  tx_cache, status, received, accepted, refused, insert_log,
                  cache_log, handling, readers >>

\* response_stream is request_queue.then(batched_request): the next request
\* is taken only when the fetch of the previous one has completed and its
\* response has been handed to the loop, so one fetch is awaited at a time
\* and the responses arrive in the order of the requests.
Fetch(n) == in_flight = {} /\ Issue(n)

\* A transport that issues fetches while others are awaited: the responses
\* may be handled in any order.
FetchAnyOrder(n) == Cardinality(in_flight) < MaxInFlight /\ Issue(n)

\* ------------------------------------------------------------------ handle_resp
\* Input txids of txid absent from tx_cache, in input order.
RespInputsNeeded(st, txid) ==
  LET ins == TxInput(txid)
      src == [i \in DOMAIN ins |-> ins[i].txid]
  IN SelectSeq(src, LAMBDA t : t \notin st.tx_cache)

\* Faulty variant: the input requests are appended, not inserted at the front.
PushNeededBack(st, needed) ==
  LET set == Dedup(needed)
      RECURSIVE PushBackAll(_, _)
      PushBackAll(q, items) ==
        IF items = << >> THEN q
        ELSE PushBackAll(RequestQueuePushBack(q, Head(items)), Tail(items))
  IN [st EXCEPT !.request_queue =
        PushBackAll(@, [i \in DOMAIN set |-> ReqTx(set[i], FALSE)])]

PushNeeded(st, needed) ==
  LET set == Dedup(needed)
  IN [st EXCEPT !.request_queue =
        PushFrontAll(@, [i \in DOMAIN set |-> ReqTx(Reverse(set)[i], FALSE)])]

\* BatchedResponseItem::Single(ResponseItem::Tx(tx, in_mempool))
HandleRespSingleTx(st, item) ==
  LET needed == IF item.flag THEN RespInputsNeeded(st, item.id) ELSE << >>
  IN PushNeeded(HandleRespTx(st, item.id), needed)

\* BatchedResponseItem::BatchTx(txs): acc is input_txs_needed so far.
RECURSIVE BatchTxLoop(_, _, _)
BatchTxLoop(st, items, acc) ==
  IF items = << >> THEN [st |-> st, needed |-> acc]
  ELSE LET item == Head(items)
           more == IF item.flag THEN RespInputsNeeded(st, item.id) ELSE << >>
       IN BatchTxLoop(HandleRespTx(st, item.id), Tail(items), acc \o more)

HandleRespBatchTx(st, items) ==
  LET r == BatchTxLoop(st, items, << >>)
  IN PushNeeded(r.st, r.needed)

\* The match on resp, then the apply loop.
HandleRespState(st, resp, verdict) ==
  IF Len(resp) > 1 THEN ApplyLoop(HandleRespBatchTx(st, resp), verdict)
  ELSE IF resp[1].type = "Block"
    THEN LET r == HandleRespBlock(st, resp[1].id)
         IN IF r.res = "ok" THEN ApplyLoop(r.st, verdict) ELSE r
  ELSE ApplyLoop(HandleRespSingleTx(st, resp[1]), verdict)

HandleResp(resp, verdict) ==
  /\ status = "running"
  /\ handling = NoHandling
  /\ readers = {}
  /\ resp \in in_flight
  /\ in_flight' = in_flight \ {resp}
  /\ Install(HandleRespState(State, resp, verdict))
  /\ UNCHANGED << received, handling, readers >>

\* The enforcer answers each call of accept_tx with any of Verdicts. The
\* calls a response handling makes are those of the run in which every
\* answer is accept (a run with another answer stops at that call), so the
\* answers are drawn for those txids only.
AllAccept == [t \in MempoolTxids |-> "accept"]

Consulted(resp) ==
  LET r == HandleRespState(State, resp, AllAccept)
  IN {r.st.insert_log[i] : i \in Len(insert_log) + 1 .. Len(r.st.insert_log)}

Next ==
  \/ \E seq_msg \in SequenceMessage : HandleSeqMessage(seq_msg)
  \/ \E n \in 1..MaxBatch : Fetch(n)
  \/ \E resp \in in_flight :
       \E verdict \in [Consulted(resp) -> Verdicts] : HandleResp(resp, verdict)

Spec == Init /\ [][Next]_vars

\* The actor fed by a transport whose responses arrive in any order.
NextAnyOrder ==
  \/ \E seq_msg \in SequenceMessage : HandleSeqMessage(seq_msg)
  \/ \E n \in 1..MaxBatch : FetchAnyOrder(n)
  \/ \E resp \in in_flight :
       \E verdict \in [Consulted(resp) -> Verdicts] : HandleResp(resp, verdict)

SpecAnyOrder == Init /\ [][NextAnyOrder]_vars

\* Some response in flight is handled, whatever the enforcer answers.
HandleSomeResp ==
  \E resp \in in_flight :
    \E verdict \in [Consulted(resp) -> Verdicts] : HandleResp(resp, verdict)

\* The enabling condition of HandleSomeResp: HandleResp has no other guard,
\* and it always takes resp out of in_flight.
HandleSomeRespEnabled ==
  /\ status = "running"
  /\ handling = NoHandling
  /\ readers = {}
  /\ in_flight # {}

\* The response stream keeps taking the front of request_queue, and every
\* fetch it issued is answered and handled (weak fairness of HandleSomeResp,
\* with its enabling condition written out); the node may stop sending
\* notifications at any time.
SpecFair ==
  /\ Spec
  /\ WF_vars(\E n \in 1..MaxBatch : Fetch(n))
  /\ \/ []<>(~HandleSomeRespEnabled)
     \/ []<><< HandleSomeResp >>_vars

\* ------------------------------------------- handle_resp, one step at a time
\* The same actor with every await and every call of the apply loop a step
\* of its own, the read-write lock of the mempool, the with_mempool readers
\* and the failures of the streams and of the mempool.

\* The tip of the mempool handed to MempoolSync::new: b0, or bA, whose block
\* chain.blocks does not hold.
InitialTips == {"b0", "bA"}

InitSteps ==
  /\ mempool_txs \in InitialTxs
  /\ chain_tip \in InitialTips
  /\ chain_blocks = {}
  /\ request_queue = << >>
  /\ seq_message_queue = << >>
  /\ tx_cache = {}
  /\ in_flight = {}
  /\ status = "running"
  /\ received = << >>
  /\ accepted = {}
  /\ refused = {}
  /\ insert_log = << >>
  /\ cache_log = << >>
  /\ handling = NoHandling
  /\ readers = {}

\* The callers of MempoolSync::with_mempool.
Callers == {"reader"}

\* The write guard is held from mempool.write().await to the return.
WriteHeld == handling.pc \in {"match", "apply"}

\* with_mempool: the read guard is granted while no writer holds the lock
\* or waits for it.
ReadBegin(c) ==
  /\ c \notin readers
  /\ handling = NoHandling
  /\ readers' = readers \cup {c}
  /\ UNCHANGED << mempool_txs, chain_tip, chain_blocks, request_queue,
                  seq_message_queue, tx_cache, in_flight, status, received,
                  accepted, refused, insert_log, cache_log, handling >>

ReadEnd(c) ==
  /\ c \in readers
  /\ readers' = readers \ {c}
  /\ UNCHANGED << mempool_txs, chain_tip, chain_blocks, request_queue,
                  seq_message_queue, tx_cache, in_flight, status, received,
                  accepted, refused, insert_log, cache_log, handling >>

\* The combined stream yields Ok(resp), task calls handle_resp, which takes
\* the write guard at once when no reader holds the lock and waits otherwise.
BeginResp(resp) ==
  /\ status = "running"
  /\ handling = NoHandling
  /\ resp \in in_flight
  /\ in_flight' = in_flight \ {resp}
  /\ handling' = [pc |-> IF readers = {} THEN "match" ELSE "lock",
                  resp |-> resp, start |-> 0, iters |-> 0]
  /\ UNCHANGED << mempool_txs, chain_tip, chain_blocks, request_queue,
                  seq_message_queue, tx_cache, status, received, accepted,
                  refused, insert_log, cache_log, readers >>

\* Faulty variant: the write guard is taken while a reader holds the lock.
AcquireWriteUnguarded ==
  /\ handling.pc = "lock"
  /\ handling' = [handling EXCEPT !.pc = "match"]
  /\ UNCHANGED << mempool_txs, chain_tip, chain_blocks, request_queue,
                  seq_message_queue, tx_cache, in_flight, status, received,
                  accepted, refused, insert_log, cache_log, readers >>

\* mempool.write().await completes once the last reader is gone.
AcquireWrite ==
  /\ handling.pc = "lock"
  /\ readers = {}
  /\ handling' = [handling EXCEPT !.pc = "match"]
  /\ UNCHANGED << mempool_txs, chain_tip, chain_blocks, request_queue,
                  seq_message_queue, tx_cache, in_flight, status, received,
                  accepted, refused, insert_log, cache_log, readers >>

\* The match on resp of handle_resp, without the apply loop.
MatchRespState(st, resp) ==
  IF Len(resp) > 1 THEN [res |-> "ok", st |-> HandleRespBatchTx(st, resp)]
  ELSE IF resp[1].type = "Block" THEN HandleRespBlock(st, resp[1].id)
  ELSE [res |-> "ok", st |-> HandleRespSingleTx(st, resp[1])]

\* Faulty variant: the write guard outlives a failed call.
ReturnsKeepGuardOnError(res) == res = "false"

\* handle_resp returns, and mempool_write is dropped, on the first call of
\* the apply loop that reports no progress, on an error and on a panic.
Returns(res) == res \notin {"ok", "true"}

MatchResp ==
  /\ status = "running"
  /\ handling.pc = "match"
  /\ LET r == MatchRespState(State, handling.resp)
     IN /\ Install(r)
        /\ handling' = IF Returns(r.res) THEN NoHandling
                       ELSE [handling EXCEPT
                               !.pc = "apply",
                               !.start = Len(r.st.seq_message_queue)]
  /\ UNCHANGED << in_flight, received, readers >>

\* One call of try_apply_next_seq_message in the loop of handle_resp; v is
\* the enforcer's answer should the call consult it.
ApplyStep(v) ==
  /\ status = "running"
  /\ handling.pc = "apply"
  /\ LET r == TryApplyNextSeqMessage(State, [t \in MempoolTxids |-> v])
     IN /\ Install(r)
        /\ handling' = IF Returns(r.res) THEN NoHandling
                       ELSE [handling EXCEPT !.iters = @ + 1]
  /\ UNCHANGED << in_flight, received, readers >>

\* The call of Mempool::remove or Mempool::insert the actor is about to
\* make in its current step, "none" when that step makes none: the removal
\* of the first transaction of a connected block, the removal a tx-removed
\* event asks for, the insertion of an accepted transaction.
MempoolCall ==
  LET q == seq_message_queue
  IN IF handling.pc = "match"
       THEN IF /\ Len(handling.resp) = 1
               /\ handling.resp[1].type = "Block"
               /\ q # << >>
               /\ Head(q) = BlockHashConnected(handling.resp[1].id)
               /\ BlockTx(handling.resp[1].id) # << >>
            THEN "MempoolRemove" ELSE "none"
     ELSE IF handling.pc = "apply" /\ q # << >>
       THEN IF Head(q).type = "TxHashRemoved" THEN "MempoolRemove"
            ELSE IF /\ Head(q).type = "TxHashAdded"
                    /\ Head(q).id \in tx_cache
                    /\ InputTxsNeeded(State, Head(q).id) = << >>
              THEN "MempoolInsert" ELSE "none"
     ELSE "none"

\* That call returns Err: handle_resp returns it with `?`, nothing is
\* written, the write guard is dropped.
MempoolFails ==
  /\ status = "running"
  /\ MempoolCall # "none"
  /\ status' = MempoolCall
  /\ accepted' = IF MempoolCall = "MempoolInsert"
                 THEN accepted \cup {Head(seq_message_queue).id}
                 ELSE accepted
  /\ handling' = NoHandling
  /\ UNCHANGED << mempool_txs, chain_tip, chain_blocks, request_queue,
                  seq_message_queue, tx_cache, in_flight, received, refused,
                  insert_log, cache_log, readers >>

\* The combined stream ends, or the sequence stream yields Err.
StreamErrors == {"CombinedStreamEnded", "SequenceStream"}

StreamFails(err) ==
  /\ status = "running"
  /\ handling = NoHandling
  /\ status' = err
  /\ UNCHANGED << mempool_txs, chain_tip, chain_blocks, request_queue,
                  seq_message_queue, tx_cache, in_flight, received, accepted,
                  refused, insert_log, cache_log, handling, readers >>

\* The response stream yields Err for the fetch resp.
RequestFails(resp) ==
  /\ status = "running"
  /\ handling = NoHandling
  /\ resp \in in_flight
  /\ in_flight' = in_flight \ {resp}
  /\ status' = "Request"
  /\ UNCHANGED << mempool_txs, chain_tip, chain_blocks, request_queue,
                  seq_message_queue, tx_cache, received, accepted, refused,
                  insert_log, cache_log, handling, readers >>

NextSteps ==
  \/ \E seq_msg \in SequenceMessage : HandleSeqMessage(seq_msg)
  \/ \E n \in 1..MaxBatch : Fetch(n)
  \/ \E resp \in in_flight : BeginResp(resp)
  \/ AcquireWrite
  \/ MatchResp
  \/ \E v \in Verdicts : ApplyStep(v)
  \/ MempoolFails
  \/ \E err \in StreamErrors : StreamFails(err)
  \/ \E resp \in in_flight : RequestFails(resp)
  \/ \E c \in Callers : ReadBegin(c)
  \/ \E c \in Callers : ReadEnd(c)

SpecSteps == InitSteps /\ [][NextSteps]_vars

\* ================================================================== claims
\* Every fetch the response stream issued has been answered and handled,
\* and nothing is left to fetch.
Quiescent == request_queue = << >> /\ in_flight = {}

\* Only tx-added and tx-removed notifications have been received.
OnlyTxNotifications ==
  \A i \in DOMAIN received :
    received[i].type \in {"TxHashAdded", "TxHashRemoved"}

\* C1: with tx-added/tx-removed notifications only, once all notifications
\* and responses have been handled (no failure, nothing queued or in
\* flight), the txids in the mempool are exactly those added and not
\* subsequently removed, on top of the initial mempool.
C1_FinalMempoolIsAddedNotRemoved ==
  (status = "running" /\ OnlyTxNotifications /\ Quiescent)
    => DOMAIN mempool_txs \cap MempoolTxids = NodeMempool(received)

\* C2: the fee stored with a transaction the actor inserted is the sum of
\* the values of the outputs it spends minus the sum of its output values.
C2_FeeIsValueInMinusValueOut ==
  \A t \in Range(insert_log) \cap DOMAIN mempool_txs :
    mempool_txs[t] = ValueIn(t) - SeqSum(TxOutput(t))

\* The hash of the first block-connected event pending in q, if any.
FirstConnected(q) ==
  LET idx == {i \in DOMAIN q : q[i].type = "BlockHashConnected"}
  IN IF idx = {} THEN NoHash
     ELSE q[CHOOSE i \in idx : \A j \in idx : i <= j].id

\* C3: while the connect event of a block A is pending ahead of the connect
\* event of another block B, no step sets chain.tip to B, and no step takes
\* a transaction of B out of the mempool (other than as a transaction of A
\* or by a pending tx-removed event), whichever block response is handled.
C3_ConnectsAppliedInOrder ==
  [][\A A \in BlockHashes, B \in BlockHashes :
       (A # B /\ FirstConnected(seq_message_queue) = A
          /\ BlockHashConnected(B) \in Range(seq_message_queue))
         => /\ chain_tip' = B => chain_tip = B
            /\ \A t \in Range(BlockTx(B)) \ Range(BlockTx(A)) :
                 (t \in DOMAIN mempool_txs
                    /\ TxHashRemoved(t) \notin Range(seq_message_queue))
                   => t \in DOMAIN mempool_txs']_vars

\* B's block response was handled while A's connect event was still at the
\* front: B is cached, its transaction t2 is still in the mempool.
C3_Witness ==
  /\ seq_message_queue # << >>
  /\ Head(seq_message_queue) = BlockHashConnected("bA")
  /\ BlockHashConnected("bB") \in Range(seq_message_queue)
  /\ "bB" \in chain_blocks
  /\ "bA" \notin chain_blocks
  /\ "t2" \in DOMAIN mempool_txs
  /\ chain_tip = "b0"

\* This step handles the response resp.
HandlesResp(resp) == resp \in in_flight /\ in_flight' = in_flight \ {resp}

\* The txids of the transactions whose outputs txid spends.
SourcesOf(txid) == {TxInput(txid)[i].txid : i \in DOMAIN TxInput(txid)}

C4Scenario == received = << TxHashAdded("t1"), TxHashAdded("t2") >>

\* C4: with notifications [TxAdded(t1), TxAdded(t2)], t2 spending t1:
\* nothing is admitted before t1 is fetched; handling t2's response first
\* puts Tx(t1, false) at the front of request_queue; and the handling of
\* t1's response, when the sources of t1's inputs are resolvable and the
\* enforcer accepts, inserts t1 and then t2.
C4_EndToEnd ==
  /\ []((C4Scenario /\ "t1" \notin tx_cache) => insert_log = << >>)
  /\ [][(C4Scenario /\ "t1" \notin tx_cache
           /\ HandlesResp(<< ReqTx("t2", TRUE) >>))
          => /\ request_queue' # << >>
             /\ Head(request_queue') = ReqTx("t1", FALSE)]_vars
  /\ [][(/\ C4Scenario
         /\ "t2" \in tx_cache
         /\ "t1" \notin tx_cache
         /\ \E f \in BOOLEAN : HandlesResp(<< ReqTx("t1", f) >>)
         /\ SourcesOf("t1") \subseteq tx_cache \cup DOMAIN mempool_txs
         /\ status' = "running")
          => /\ insert_log' = << "t1", "t2" >>
             /\ seq_message_queue' = << >>]_vars

\* t2 was fetched before t1, t1's inputs were resolved from the mempool,
\* and both were admitted, t1 first.
C4_Witness ==
  /\ C4Scenario
  /\ cache_log = << "t2", "t1" >>
  /\ insert_log = << "t1", "t2" >>
  /\ status = "running"

\* C5: a transaction is in the mempool only with the source of each of its
\* inputs in tx_cache or the mempool; and while the tx-added event at the
\* front has an unresolved input source, a step leaves the event at the
\* front, admits nothing and leaves the actor running.
C5_NeverAdmittedUnresolved ==
  /\ [](\A t \in Range(insert_log) :
          SourcesOf(t) \subseteq tx_cache \cup DOMAIN mempool_txs)
  /\ [][\A t \in MempoolTxids :
          (/\ status = "running"
           /\ seq_message_queue # << >>
           /\ Head(seq_message_queue) = TxHashAdded(t)
           /\ ~(SourcesOf(t) \subseteq tx_cache' \cup DOMAIN mempool_txs'))
            => /\ status' = "running"
               /\ seq_message_queue' # << >>
               /\ Head(seq_message_queue') = TxHashAdded(t)
               /\ insert_log' = insert_log]_vars

\* t1 is fetched, the sources of its inputs are not: its event is pending,
\* their fetches are at the front of request_queue, the actor runs on.
C5_Witness ==
  /\ status = "running"
  /\ seq_message_queue # << >>
  /\ Head(seq_message_queue) = TxHashAdded("t1")
  /\ "t1" \in tx_cache
  /\ SourcesOf("t1") \cap (tx_cache \cup DOMAIN mempool_txs) = {}
  /\ insert_log = << >>
  /\ Len(received) = MaxNotifs

C7_RemovedCancelsFetch ==
  [][\A t \in MempoolTxids :
       received' = Append(received, TxHashRemoved(t))
         => ReqTx(t, TRUE) \notin Range(request_queue')]_vars

\* t1 was announced and then removed before its fetch was issued: nothing
\* is queued, in flight or cached.
C7_Witness ==
  /\ received = << TxHashAdded("t1"), TxHashRemoved("t1") >>
  /\ request_queue = << >>
  /\ in_flight = {}
  /\ tx_cache = {}

\* The event at the front of seq_message_queue is the removal of a txid
\* that is not in the mempool.
StaleRemovalAtFront ==
  /\ seq_message_queue # << >>
  /\ Head(seq_message_queue).type = "TxHashRemoved"
  /\ Head(seq_message_queue).id \notin DOMAIN mempool_txs

\* C8: applying a tx-removed event whose txid is not in the mempool reports
\* no progress and no error and changes nothing; and a step taken with such
\* an event at the front leaves the mempool as it is and the actor running.
C8_StaleRemovalIsNoOp ==
  /\ [](StaleRemovalAtFront =>
          \A verdict \in [MempoolTxids -> Verdicts] :
            TryApplyNextSeqMessage(State, verdict)
              = [res |-> "false", st |-> State])
  /\ [][(status = "running" /\ StaleRemovalAtFront)
          => /\ status' = "running"
             /\ mempool_txs' = mempool_txs
             /\ chain_tip' = chain_tip]_vars

\* t1 was admitted and then taken out by the connect of block bA; its
\* tx-removed event came to the front and the apply loop has run on it.
C8_Witness ==
  /\ status = "running"
  /\ StaleRemovalAtFront
  /\ Head(seq_message_queue) = TxHashRemoved("t1")
  /\ insert_log = << "t1" >>
  /\ chain_tip = "bA"

\* C9: when try_apply_next_seq_message reports no progress, a second call
\* on the state it left reports no progress again and leaves the mempool
\* (txs, tip, blocks), seq_message_queue, request_queue and tx_cache as the
\* first call left them.
C9_NoProgressIsIdempotent ==
  status = "running" =>
    \A v \in Verdicts :
      LET verdict == [t \in MempoolTxids |-> v]
          r1 == TryApplyNextSeqMessage(State, verdict)
      IN r1.res = "false" => TryApplyNextSeqMessage(r1.st, verdict) = r1

\* A call that reports no progress and yet changes request_queue: t1 is
\* cached, its event is at the front, and the fetch of one of its input
\* sources has left request_queue, so the call queues it again.
C9_Witness ==
  /\ status = "running"
  /\ seq_message_queue # << >>
  /\ Head(seq_message_queue) = TxHashAdded("t1")
  /\ LET r1 == TryApplyNextSeqMessage(State, AllAccept)
     IN /\ r1.res = "false"
        /\ r1.st.request_queue # request_queue

\* The txids a step appends to insert_log.
Inserted ==
  {insert_log'[i] : i \in (Len(insert_log) + 1)..Len(insert_log')}

\* C10: a step inserts a transaction into the mempool only if accept_tx
\* returned true for it in that step; every transaction the actor inserted
\* was accepted, and one accept_tx returned false or an error for is not in
\* the mempool.
C10_InsertedOnlyIfAccepted ==
  /\ [](Range(insert_log) \subseteq accepted)
  /\ [](refused \cap DOMAIN mempool_txs = {})
  /\ [][Inserted \subseteq accepted' \ (refused' \ refused)]_vars

\* t1 was accepted and inserted, t2 was refused and is not in the mempool.
C10_Witness ==
  /\ insert_log = << "t1" >>
  /\ "t1" \in accepted
  /\ refused = {"t2"}
  /\ "t2" \notin DOMAIN mempool_txs

\* C11: once the actor has failed with an error of the taxonomy it takes no
\* further step: the mempool, the queues and the cache stay as they are; it
\* holds no guard of the mempool's lock, and every with_mempool caller that
\* is not reading can take the read guard.
C11_ErrorsAreFatal ==
  /\ [][(status \in SyncTaskError)
          => /\ UNCHANGED << mempool_txs, chain_tip, chain_blocks,
                             request_queue, seq_message_queue, tx_cache,
                             in_flight, handling >>
             /\ status' = status]_vars
  /\ [](status \in SyncTaskError
          => /\ handling = NoHandling
             /\ \A c \in Callers \ readers : ENABLED ReadBegin(c))

\* The enforcer failed on a transaction after t1 had been admitted; a
\* caller of with_mempool is reading the mempool the actor left.
C11_Witness ==
  /\ status = "CusfEnforcer"
  /\ readers # {}
  /\ insert_log = << "t1" >>
  /\ "t1" \in DOMAIN mempool_txs

\* C12: no caller of with_mempool holds the read guard while a call of
\* handle_resp is between taking the write guard and returning, and the
\* mempool (txs, chain.tip, chain.blocks) changes only in steps of such a
\* call; so a reader sees the mempool as it is between two handlings.
C12_ReadersSeeNoHandlingInProgress ==
  /\ [](readers # {} => ~WriteHeld)
  /\ [][<< mempool_txs, chain_tip, chain_blocks >>'
          # << mempool_txs, chain_tip, chain_blocks >> => WriteHeld]_vars

\* The response for block bA, whose connect event is at the front and whose
\* transaction t1 is in the mempool, waits for the write guard while a
\* caller of with_mempool reads.
C12_Witness ==
  /\ readers # {}
  /\ handling.pc = "lock"
  /\ handling.resp = << ReqBlock("bA") >>
  /\ seq_message_queue # << >>
  /\ Head(seq_message_queue) = BlockHashConnected("bA")
  /\ "t1" \in DOMAIN mempool_txs

\* The outputs of txid are worth more than the outputs it spends.
NegativeFee(txid) == SeqSum(TxOutput(txid)) > ValueIn(txid)

\* C13: a transaction whose output values exceed its input values is never
\* put before the enforcer and never inserted into the mempool.
C13_NegativeFeeIsFatal ==
  \A t \in MempoolTxids :
    NegativeFee(t) =>
      /\ t \notin accepted \cup refused
      /\ t \notin Range(insert_log)

\* C14: a step in which the enforcer rejects a transaction (accept_tx
\* returns false, not an error) leaves the actor running, the transaction
\* out of the mempool and its tx-added event popped.
C14_RejectIsProgress ==
  [][\A t \in MempoolTxids :
       (t \in refused' \ refused /\ status' # "CusfEnforcer")
         => /\ status' = "running"
            /\ t \notin DOMAIN mempool_txs'
            /\ TxHashAdded(t) \notin Range(seq_message_queue')]_vars

\* This step is the match of handle_resp on the response for block hash,
\* and handle_resp_block returns Ok.
HandlesBlock(hash) ==
  /\ handling.pc = "match"
  /\ handling.resp = << ReqBlock(hash) >>
  /\ handling'.pc = "apply"

\* C15: handle_resp_block, on a block whose connect event is at the front
\* of seq_message_queue, takes exactly the block's txids out of the mempool
\* and exactly their Tx(txid, true) items out of request_queue, sets
\* chain.tip to the block's hash and pops the event; on a block whose
\* connect event is not at the front and whose disconnect event is not at
\* the front with chain.tip at the block, it leaves chain.tip, the mempool's
\* txs, request_queue and seq_message_queue as they are.
C15_BlockResponseEffect ==
  [][\A h \in BlockHashes :
       HandlesBlock(h) =>
         LET q == seq_message_queue
             txids == Range(BlockTx(h))
         IN IF q # << >> /\ Head(q) = BlockHashConnected(h)
              THEN /\ DOMAIN mempool_txs' = DOMAIN mempool_txs \ txids
                   /\ \A t \in DOMAIN mempool_txs' :
                        mempool_txs'[t] = mempool_txs[t]
                   /\ request_queue' =
                        SelectSeq(request_queue, LAMBDA item :
                          item \notin {ReqTx(t, TRUE) : t \in txids})
                   /\ chain_tip' = h
                   /\ seq_message_queue' = Tail(q)
            ELSE IF q # << >> /\ Head(q) = BlockHashDisconnected(h)
                      /\ chain_tip = h
              THEN TRUE
            ELSE UNCHANGED << chain_tip, mempool_txs, request_queue,
                              seq_message_queue >>]_vars

\* t1 had been admitted; the connect of bA, at the front, has just been
\* handled: t1 is out of the mempool, the tip is bA, the event is popped,
\* the apply loop has not started.
C15_Witness ==
  /\ handling.pc = "apply"
  /\ handling.iters = 0
  /\ handling.resp = << ReqBlock("bA") >>
  /\ chain_tip = "bA"
  /\ insert_log = << "t1" >>
  /\ "t1" \notin DOMAIN mempool_txs
  /\ received = << TxHashAdded("t1"), BlockHashConnected("bA") >>
  /\ seq_message_queue = << >>

\* C16: the step in which handle_resp_block handles the response for a
\* block leaves the block in chain.blocks, whatever the front of
\* seq_message_queue and however the handling ends (a failing
\* Mempool::remove aside); and no step takes a block out of chain.blocks.
C16_FetchedBlockIsCached ==
  [][/\ chain_blocks \subseteq chain_blocks'
     /\ \A h \in BlockHashes :
          (/\ handling.pc = "match"
           /\ handling.resp = << ReqBlock(h) >>
           /\ handling' # handling
           /\ status' # "MempoolRemove")
            => h \in chain_blocks']_vars

\* The previous hash of block hash, the all-zero hash when it has none.
RolledBack(hash) ==
  IF BlockPrev(hash) = NoHash THEN ZeroHash ELSE BlockPrev(hash)

\* This step tries the disconnect event of block h at the front of
\* seq_message_queue: handle_resp_block on the response for h, or one call
\* of try_apply_next_seq_message.
TriesDisconnect(h) ==
  /\ status = "running"
  /\ seq_message_queue # << >>
  /\ Head(seq_message_queue) = BlockHashDisconnected(h)
  /\ handling' # handling
  /\ \/ handling.pc = "match" /\ handling.resp = << ReqBlock(h) >>
     \/ handling.pc = "apply"

\* The block of the step's disconnect event is at hand: just fetched, or
\* cached.
BlockAtHand(h) == handling.pc = "match" \/ h \in chain_blocks

\* C17: a step that tries a disconnect event whose hash is chain.tip and
\* whose block is at hand puts the block's transactions back into the
\* mempool, sets chain.tip to the block's previous hash (all-zero when it
\* has none), pops the event and leaves the actor running; a step that
\* tries one whose hash is not chain.tip, or whose block is not at hand,
\* leaves the event at the front and chain.tip as it is.
C17_DisconnectRollsBack ==
  [][\A h \in BlockHashes :
       TriesDisconnect(h) =>
         IF chain_tip = h /\ BlockAtHand(h)
         THEN /\ status' = "running"
              /\ Range(BlockTx(h)) \subseteq DOMAIN mempool_txs'
              /\ chain_tip' = RolledBack(h)
              /\ seq_message_queue' = Tail(seq_message_queue)
         ELSE /\ chain_tip' = chain_tip
              /\ seq_message_queue' = seq_message_queue]_vars

\* q without its first k items.
Drop(q, k) == SubSeq(q, k + 1, Len(q))

\* C18: seq_message_queue is the notifications received so far without the
\* first few of them (those applied); a step either appends the
\* notification it receives at the back, or removes items from the front,
\* or leaves the queue as it is.
C18_SeqMessageQueueIsFifo ==
  /\ [](\E k \in 0..Len(received) : seq_message_queue = Drop(received, k))
  /\ [][\/ /\ Len(received') = Len(received) + 1
           /\ SubSeq(received', 1, Len(received)) = received
           /\ seq_message_queue' =
                Append(seq_message_queue, received'[Len(received')])
        \/ /\ received' = received
           /\ \E k \in 0..Len(seq_message_queue) :
                seq_message_queue' = Drop(seq_message_queue, k)]_vars

\* Three notifications were received, the first two have been applied, the
\* third is pending.
C18_Witness ==
  /\ status = "running"
  /\ received = << TxHashAdded("t1"), BlockHashConnected("bA"),
                   TxHashAdded("t2") >>
  /\ seq_message_queue = << TxHashAdded("t2") >>
  /\ chain_tip = "bA"

\* C19: in the apply loop of handle_resp, a call that reports progress
\* pops exactly the front event and the loop goes on; any other call pops
\* nothing and ends the loop; so the successful iterations made so far and
\* the events still queued add up to the events queued when the loop
\* started, and the loop makes at most that many successful iterations.
C19_ApplyLoopTerminates ==
  /\ [](handling.pc = "apply"
          => handling.iters + Len(seq_message_queue) = handling.start)
  /\ [][(handling.pc = "apply" /\ handling' # handling)
          => IF handling'.pc = "apply"
             THEN /\ seq_message_queue # << >>
                  /\ seq_message_queue' = Tail(seq_message_queue)
                  /\ handling'.iters = handling.iters + 1
             ELSE /\ handling' = NoHandling
                  /\ seq_message_queue' = seq_message_queue]_vars

\* The loop started with three events queued and has applied two of them.
C19_Witness ==
  /\ handling.pc = "apply"
  /\ handling.start = 3
  /\ handling.iters = 2
  /\ Len(seq_message_queue) = 1

\* The connect event of block h is the front of seq_message_queue of the
\* running actor: no earlier event is pending before it.
ConnectAtFront(h) ==
  /\ status = "running"
  /\ seq_message_queue # << >>
  /\ Head(seq_message_queue) = BlockHashConnected(h)

\* The block notifications received so far announce a chain growing from
\* b0: each connects a block that extends the one connected just before it,
\* and no block is disconnected.
ChainGrows ==
  LET blk == SelectSeq(received, LAMBDA m :
               m.type \in {"BlockHashConnected", "BlockHashDisconnected"})
  IN \A i \in DOMAIN blk :
       /\ blk[i].type = "BlockHashConnected"
       /\ BlockPrev(blk[i].id) = IF i = 1 THEN "b0" ELSE blk[i - 1].id

\* C20: while the node announces a growing chain, a connect event that is
\* the front of seq_message_queue is eventually applied (chain.tip becomes
\* its block) unless the actor fails, provided every fetch is answered and
\* handled.
C20_ConnectEventuallyApplied ==
  \A h \in BlockHashes :
    (ChainGrows /\ ConnectAtFront(h))
      ~> (~ChainGrows \/ chain_tip = h \/ status # "running")

====
